---- MODULE Spec2Model ----
(***************************************************************************)
(* A model of src/struct_parser.h (class BitFieldStructParser).             *)
(*                                                                         *)
(* A struct text is a sequence of items.  An item is either one non-word    *)
(* character (" ", "\n", ":", ";", "{", "}", "/", "*") or a run of word      *)
(* characters ([A-Za-z0-9_]) kept as one string.  Every loop of the source  *)
(* that walks a std::string character by character treats all the           *)
(* characters of such a run alike, so it is walked here item by item; two   *)
(* runs that become adjacent in a std::string are one run (AppendChar).     *)
(***************************************************************************)
EXTENDS Integers, Sequences, FiniteSets, TLC

VARIABLES
    structText,   \* the StructText argument: items of the struct body so far
    bareText,     \* the same body with every comment replaced by one space
    decls,        \* the declarations the caller wrote into structText
    phase,        \* "edit" | "parsed" | "ready" | "written" | "read"
    info,         \* StructInfo returned by parseStruct (plus the exception)
    buffer,       \* memory at char* buffer: byte index -> 0..255
    lastWrite,    \* arguments and outcome of the last struct_write
    lastRead,     \* arguments and outcome of the last struct_read
    typeSizes,    \* static std::map<std::string,size_t> typeSizes (pairs)
    pc,           \* race model: per thread position inside getTypeSize
    arg,          \* race model: per thread, the type being looked up
    ins,          \* race model: per thread, insertions done by its init call
    ret,          \* race model: per thread, result of its last getTypeSize
    calls,        \* race model: per thread, number of getTypeSize calls made
    initDone      \* race model: a populating initializeTypeSizes call returned

parserVars == <<structText, bareText, decls, phase, info, buffer, lastWrite, lastRead>>
raceVars == <<pc, arg, ins, ret, calls, initDone>>
vars == <<structText, bareText, decls, phase, info, buffer, lastWrite, lastRead,
          typeSizes, pc, arg, ins, ret, calls, initDone>>

(***************************************************************************)
(* Bounds of the model.                                                    *)
(***************************************************************************)
MaxFields == 2          \* declarations per struct, mixed universe
MaxPlainFields == 3     \* declarations per struct, plain fields only
MaxPackFields == 4      \* declarations per struct, uint8_t bit-fields only
MaxWidthLiteral == 20   \* largest decimal literal the texts contain
MaxCalls == 2           \* getTypeSize calls per thread in the race model

(***************************************************************************)
(* Strings and characters.                                                 *)
(***************************************************************************)
Last(s) == s[Len(s)]

\* std::isspace / the set " \t\n\r" of trim
IsSpace(c) == c \in {" ", "\t", "\n", "\r"}

\* \w of std::regex: an item that is a run of word characters
IsWord(c) == c \notin {" ", "\t", "\n", "\r", ":", ";", "{", "}", "/", "*", "[", "]"}

\* \d+ of std::regex: a run made of decimal digits only
IsDigits(c) == \E n \in 0..MaxWidthLiteral : ToString(n) = c

\* std::stoi
stoi(c) == CHOOSE n \in 0..MaxWidthLiteral : ToString(n) = c

\* std::string::operator+=(char): a word character after a word character
\* continues the same run
AppendChar(result, c) ==
    IF result # <<>> /\ IsWord(Last(result)) /\ IsWord(c)
    THEN [result EXCEPT ![Len(result)] = @ \o c]
    ELSE Append(result, c)

RECURSIVE FirstNotSpace(_, _)
FirstNotSpace(str, i) ==
    IF i > Len(str) THEN 0
    ELSE IF IsSpace(str[i]) THEN FirstNotSpace(str, i + 1) ELSE i

RECURSIVE LastNotSpace(_, _)
LastNotSpace(str, i) ==
    IF i < 1 THEN 0
    ELSE IF IsSpace(str[i]) THEN LastNotSpace(str, i - 1) ELSE i

trim(str) ==
    LET start == FirstNotSpace(str, 1)
        end == LastNotSpace(str, Len(str))
    IN IF start = 0 THEN <<>> ELSE SubSeq(str, start, end)

(***************************************************************************)
(* removeCommentsAndExtraSpaces                                            *)
(***************************************************************************)
RECURSIVE scanText(_, _, _, _, _)
scanText(str, i, inLineComment, inBlockComment, result) ==
    IF i > Len(str) THEN result
    ELSE IF inLineComment THEN
        IF str[i] = "\n"
        THEN scanText(str, i + 1, FALSE, inBlockComment, Append(result, " "))
        ELSE scanText(str, i + 1, TRUE, inBlockComment, result)
    ELSE IF inBlockComment THEN
        IF str[i] = "*" /\ i + 1 <= Len(str) /\ str[i + 1] = "/"
        THEN scanText(str, i + 2, FALSE, FALSE, result)
        ELSE scanText(str, i + 1, FALSE, TRUE, result)
    ELSE IF str[i] = "/" /\ i + 1 <= Len(str) /\ str[i + 1] = "/"
        THEN scanText(str, i + 2, TRUE, FALSE, result)
    ELSE IF str[i] = "/" /\ i + 1 <= Len(str) /\ str[i + 1] = "*"
        THEN scanText(str, i + 2, FALSE, TRUE, result)
    ELSE IF IsSpace(str[i]) THEN
        IF result = <<>> \/ Last(result) # " "
        THEN scanText(str, i + 1, FALSE, FALSE, Append(result, " "))
        ELSE scanText(str, i + 1, FALSE, FALSE, result)
    ELSE scanText(str, i + 1, FALSE, FALSE, AppendChar(result, str[i]))

removeCommentsAndExtraSpaces(str) == trim(scanText(str, 1, FALSE, FALSE, <<>>))

(***************************************************************************)
(* splitFields                                                             *)
(***************************************************************************)
RECURSIVE splitLoop(_, _, _, _, _)
splitLoop(content, i, braceLevel, currentField, fields) ==
    IF i > Len(content)
    THEN IF currentField # <<>> THEN Append(fields, trim(currentField)) ELSE fields
    ELSE LET c == content[i]
             level == IF c = "{" THEN braceLevel + 1
                      ELSE IF c = "}" THEN braceLevel - 1 ELSE braceLevel
         IN IF c = ";" /\ level = 0
            THEN IF currentField # <<>>
                 THEN splitLoop(content, i + 1, level, <<>>,
                                Append(fields, trim(currentField)))
                 ELSE splitLoop(content, i + 1, level, currentField, fields)
            ELSE splitLoop(content, i + 1, level, Append(currentField, c), fields)

splitFields(content) == splitLoop(content, 1, 0, <<>>, <<>>)

(***************************************************************************)
(* The regular expressions of parseStruct.                                 *)
(***************************************************************************)
Positions(str, c) == {i \in 1..Len(str) : str[i] = c}

SetMin(S) == CHOOSE m \in S : \A k \in S : m <= k
SetMax(S) == CHOOSE m \in S : \A k \in S : m >= k

\* std::regex_search(processedText, match, contentRegex), contentRegex \{(.*)\}:
\* the leftmost "{" and, the star being greedy, the last "}" after it
contentRegex(str) ==
    LET opens == Positions(str, "{")
        first == SetMin(opens)
        closes == {j \in Positions(str, "}") : j > first}
    IN IF opens = {} \/ closes = {}
       THEN [found |-> FALSE, content |-> <<>>]
       ELSE [found |-> TRUE, content |-> SubSeq(str, first + 1, SetMax(closes) - 1)]

\* std::regex_replace(fieldLine, std::regex("\\s+"), " ")
RECURSIVE collapseSpaces(_, _, _)
collapseSpaces(str, i, result) ==
    IF i > Len(str) THEN result
    ELSE IF IsSpace(str[i])
         THEN IF result # <<>> /\ Last(result) = " "
              THEN collapseSpaces(str, i + 1, result)
              ELSE collapseSpaces(str, i + 1, Append(result, " "))
         ELSE collapseSpaces(str, i + 1, Append(result, str[i]))

\* \s* from position i: the position of the first item that is not white space
RECURSIVE SkipSpaces(_, _)
SkipSpaces(line, i) ==
    IF i <= Len(line) /\ IsSpace(line[i]) THEN SkipSpaces(line, i + 1) ELSE i

NoMatch == [matched |-> FALSE, type |-> "", name |-> "", bitWidth |-> 0]

\* (\w+)\s+(\w*)\s*:\s*(\d+)
bitFieldRegex(line) ==
    LET n == Len(line)
        p2 == SkipSpaces(line, 2)
        hasName == p2 <= n /\ IsWord(line[p2])
        p3 == SkipSpaces(line, IF hasName THEN p2 + 1 ELSE p2)
        p4 == SkipSpaces(line, p3 + 1)
    IN IF /\ n >= 1 /\ IsWord(line[1])
          /\ p2 > 2
          /\ p3 <= n /\ line[p3] = ":"
          /\ p4 = n /\ IsDigits(line[p4])
       THEN [matched |-> TRUE, type |-> line[1],
             name |-> IF hasName THEN line[p2] ELSE "",
             bitWidth |-> stoi(line[p4])]
       ELSE NoMatch

\* (\w+)\s*:\s*(\d+)
anonymousBitFieldRegex(line) ==
    LET n == Len(line)
        p2 == SkipSpaces(line, 2)
        p3 == SkipSpaces(line, p2 + 1)
    IN IF /\ n >= 1 /\ IsWord(line[1])
          /\ p2 <= n /\ line[p2] = ":"
          /\ p3 = n /\ IsDigits(line[p3])
       THEN [matched |-> TRUE, type |-> line[1], name |-> "",
             bitWidth |-> stoi(line[p3])]
       ELSE NoMatch

\* (\w+)\s+(\w+)
normalFieldRegex(line) ==
    LET n == Len(line)
        p2 == SkipSpaces(line, 2)
    IN IF /\ n >= 1 /\ IsWord(line[1])
          /\ p2 > 2
          /\ p2 = n /\ IsWord(line[p2])
       THEN [matched |-> TRUE, type |-> line[1], name |-> line[p2], bitWidth |-> 0]
       ELSE NoMatch

\* (\w+)\s+(\w+).*
normalFieldWithMultipleSpaces(line) ==
    LET n == Len(line)
        p2 == SkipSpaces(line, 2)
    IN IF /\ n >= 1 /\ IsWord(line[1])
          /\ p2 > 2
          /\ p2 <= n /\ IsWord(line[p2])
       THEN [matched |-> TRUE, type |-> line[1], name |-> line[p2], bitWidth |-> 0]
       ELSE NoMatch

\* the if / else-if chain that fills FieldInfo's type, name, bitWidth and flags
classifyField(fieldLine) ==
    LET simplifiedLine == trim(collapseSpaces(fieldLine, 1, <<>>))
        m1 == bitFieldRegex(simplifiedLine)
        m2 == anonymousBitFieldRegex(simplifiedLine)
        m3 == normalFieldRegex(simplifiedLine)
        m4 == normalFieldWithMultipleSpaces(simplifiedLine)
        mk(m, bf, anon) == [matched |-> TRUE, type |-> m.type, name |-> m.name,
                            bitWidth |-> m.bitWidth, isBitField |-> bf,
                            isAnonymous |-> anon]
    IN IF m1.matched THEN mk(m1, TRUE, FALSE)
       ELSE IF m2.matched THEN mk(m2, TRUE, TRUE)
       ELSE IF m3.matched THEN mk(m3, FALSE, FALSE)
       ELSE IF m4.matched THEN mk(m4, FALSE, FALSE)
       ELSE [matched |-> FALSE, type |-> "", name |-> "", bitWidth |-> 0,
             isBitField |-> FALSE, isAnonymous |-> FALSE]

(***************************************************************************)
(* The type-size registry.  typeSizes is a std::map, modelled as a set of  *)
(* <<key, size>> pairs with at most one pair per key.                      *)
(***************************************************************************)
\* InitEntries with the last key mistyped as the one before it
InitEntriesRepeatedKey ==
    << <<"uint8_t", 1>>, <<"int8_t", 1>>, <<"char", 1>>,
       <<"uint16_t", 2>>, <<"int16_t", 2>>, <<"short", 2>>,
       <<"uint32_t", 4>>, <<"int32_t", 4>>, <<"float", 4>>,
       <<"uint64_t", 8>>, <<"int64_t", 8>>, <<"int64_t", 8>> >>

\* the twelve assignments of initializeTypeSizes, in source order
InitEntries ==
    << <<"uint8_t", 1>>, <<"int8_t", 1>>, <<"char", 1>>,
       <<"uint16_t", 2>>, <<"int16_t", 2>>, <<"short", 2>>,
       <<"uint32_t", 4>>, <<"int32_t", 4>>, <<"float", 4>>,
       <<"uint64_t", 8>>, <<"int64_t", 8>>, <<"double", 8>> >>

\* typeSizes[key] = size
mapAssign(ts, entry) == {p \in ts : p[1] # entry[1]} \cup {entry}

\* typeSizes.find(type) != typeSizes.end()
mapHas(ts, type) == \E p \in ts : p[1] = type

\* it->second
mapGet(ts, type) == (CHOOSE p \in ts : p[1] = type)[2]

\* if (!typeSizes.empty()) return;
skipInitialization(ts) == ts # {}

RECURSIVE insertFrom(_, _)
insertFrom(ts, k) ==
    IF k > Len(InitEntries) THEN ts
    ELSE insertFrom(mapAssign(ts, InitEntries[k]), k + 1)

\* one uninterrupted call of initializeTypeSizes
initializeTypeSizes(ts) == IF skipInitialization(ts) THEN ts ELSE insertFrom(ts, 1)

\* one uninterrupted call of getTypeSize; known = FALSE is the throw
getTypeSize(ts, type) ==
    LET t == initializeTypeSizes(ts)
    IN IF mapHas(t, type)
       THEN [known |-> TRUE, size |-> mapGet(t, type)]
       ELSE [known |-> FALSE, size |-> 0]

(***************************************************************************)
(* parseStruct: the layout loop.                                           *)
(***************************************************************************)
\* placePlainField that first rounds the byte cursor up to a multiple of the
\* type's size, as a compiler's natural alignment would
placePlainFieldAligned(fd, typeSize, currentByteOffset, currentBitOffset) ==
    LET aligned == ((currentByteOffset + typeSize - 1) \div typeSize) * typeSize
    IN [field |-> [type |-> fd.type, name |-> fd.name, bitWidth |-> fd.bitWidth,
                   byteOffset |-> aligned, bitOffset |-> 0,
                   size |-> typeSize, isBitField |-> FALSE,
                   isAnonymous |-> fd.isAnonymous],
        currentByteOffset |-> aligned + typeSize,
        currentBitOffset |-> 0]

\* the branch for a field that is not a bit-field
placePlainField(fd, typeSize, currentByteOffset, currentBitOffset) ==
    [field |-> [type |-> fd.type, name |-> fd.name, bitWidth |-> fd.bitWidth,
                byteOffset |-> currentByteOffset, bitOffset |-> 0,
                size |-> typeSize, isBitField |-> FALSE,
                isAnonymous |-> fd.isAnonymous],
     currentByteOffset |-> currentByteOffset + typeSize,
     currentBitOffset |-> 0]

\* placeBitField with >= for > in the test that opens a new unit
placeBitFieldEagerOverflow(fd, typeSize, currentByteOffset, currentBitOffset) ==
    LET overflow == currentBitOffset + fd.bitWidth >= typeSize * 8
        byte1 == IF overflow THEN currentByteOffset + typeSize ELSE currentByteOffset
        bit1 == IF overflow THEN 0 ELSE currentBitOffset
        bit2 == bit1 + fd.bitWidth
        full == bit2 >= typeSize * 8
    IN [field |-> [type |-> fd.type, name |-> fd.name, bitWidth |-> fd.bitWidth,
                   byteOffset |-> byte1, bitOffset |-> bit1,
                   size |-> typeSize, isBitField |-> TRUE,
                   isAnonymous |-> fd.isAnonymous],
        currentByteOffset |-> IF full THEN byte1 + typeSize ELSE byte1,
        currentBitOffset |-> IF full THEN 0 ELSE bit2]

\* the branch for a bit-field
placeBitField(fd, typeSize, currentByteOffset, currentBitOffset) ==
    LET overflow == currentBitOffset + fd.bitWidth > typeSize * 8
        byte1 == IF overflow THEN currentByteOffset + typeSize ELSE currentByteOffset
        bit1 == IF overflow THEN 0 ELSE currentBitOffset
        bit2 == bit1 + fd.bitWidth
        full == bit2 >= typeSize * 8
    IN [field |-> [type |-> fd.type, name |-> fd.name, bitWidth |-> fd.bitWidth,
                   byteOffset |-> byte1, bitOffset |-> bit1,
                   size |-> typeSize, isBitField |-> TRUE,
                   isAnonymous |-> fd.isAnonymous],
        currentByteOffset |-> IF full THEN byte1 + typeSize ELSE byte1,
        currentBitOffset |-> IF full THEN 0 ELSE bit2]

\* the body of the loop over the field lines, after classification
placeField(fd, typeSize, currentByteOffset, currentBitOffset) ==
    IF ~fd.isBitField
    THEN placePlainField(fd, typeSize, currentByteOffset, currentBitOffset)
    ELSE placeBitField(fd, typeSize, currentByteOffset, currentBitOffset)

\* structInfo.totalSize = currentByteOffset + (currentBitOffset > 0 ? getTypeSize("uint8_t") : 0)
totalSizeOf(ts, currentByteOffset, currentBitOffset) ==
    currentByteOffset + (IF currentBitOffset > 0 THEN getTypeSize(ts, "uint8_t").size ELSE 0)

\* the field lines the loop does not skip (an empty line and a line no regex
\* matches are skipped with continue), each with what the regexes captured
RECURSIVE classifyLines(_, _)
classifyLines(fieldLines, i) ==
    IF i > Len(fieldLines) THEN <<>>
    ELSE LET fd == classifyField(fieldLines[i])
         IN IF fieldLines[i] = <<>> \/ ~fd.matched
            THEN classifyLines(fieldLines, i + 1)
            ELSE <<fd>> \o classifyLines(fieldLines, i + 1)

\* for (const auto& fieldLine : fields) { ... }: the locals of parseStruct
\* after the first k classified lines; error is the exception getTypeSize threw
RECURSIVE layoutLoop(_, _, _)
layoutLoop(ts, fds, k) ==
    IF k = 0
    THEN [error |-> "", fields |-> <<>>, currentByteOffset |-> 0, currentBitOffset |-> 0]
    ELSE LET before == layoutLoop(ts, fds, k - 1)
             fd == fds[k]
             sz == getTypeSize(ts, fd.type)
             placed == placeField(fd, sz.size, before.currentByteOffset,
                                  before.currentBitOffset)
         IN IF before.error # "" THEN before
            ELSE IF ~sz.known
            THEN [error |-> "Unknown type", fields |-> <<>>,
                  currentByteOffset |-> 0, currentBitOffset |-> 0]
            ELSE [error |-> "",
                  fields |-> IF fd.isAnonymous THEN before.fields
                             ELSE Append(before.fields, placed.field),
                  currentByteOffset |-> placed.currentByteOffset,
                  currentBitOffset |-> placed.currentBitOffset]

\* the StructInfo built from the classified lines
layoutOf(ts, fds) ==
    LET end == layoutLoop(ts, fds, Len(fds))
    IN IF end.error # ""
       THEN [error |-> end.error, fields |-> <<>>, totalSize |-> 0]
       ELSE [error |-> "", fields |-> end.fields,
             totalSize |-> totalSizeOf(ts, end.currentByteOffset, end.currentBitOffset)]

\* the classified lines of a struct text that has a body
classifiedFields(text) ==
    classifyLines(splitFields(contentRegex(removeCommentsAndExtraSpaces(text)).content), 1)

\* parseStruct(structText): the StructInfo, or the exception in error
parseStruct(ts, text) ==
    IF contentRegex(removeCommentsAndExtraSpaces(text)).found
    THEN layoutOf(ts, classifiedFields(text))
    ELSE [error |-> "No struct body", fields |-> <<>>, totalSize |-> 0]

\* typeSizes after parseStruct(text): populated by the first getTypeSize call
typeSizesAfterParse(ts, text) ==
    IF contentRegex(removeCommentsAndExtraSpaces(text)).found
       /\ classifiedFields(text) # <<>>
    THEN initializeTypeSizes(ts)
    ELSE ts

\* struct_sizeof
struct_sizeof(ts, text) == parseStruct(ts, text).totalSize

\* the lookup loop shared by struct_write, struct_read and FieldType:
\* the index of the first field named fieldName, 0 when there is none
findField(structInfo, fieldName) ==
    LET hits == {i \in 1..Len(structInfo.fields) : structInfo.fields[i].name = fieldName}
    IN IF hits = {} THEN 0 ELSE SetMin(hits)

\* FieldType
FieldType(ts, text, fieldName) ==
    LET structInfo == parseStruct(ts, text)
        i == findField(structInfo, fieldName)
    IN IF i = 0 THEN "" ELSE structInfo.fields[i].type

(***************************************************************************)
(* struct_write and struct_read.  Memory is a function from byte index to   *)
(* 0..255; bytes 0..totalSize-1 are the caller's buffer, the bytes after    *)
(* them stand for whatever lies behind it.  A value is a non-negative       *)
(* integer below 2^31 held in the 8-byte object that void* value points to  *)
(* (little-endian, as on the build's targets).                              *)
(***************************************************************************)
\* bit k of a 64-bit object holding v
BitOf(v, k) == IF k > 30 THEN 0 ELSE (v \div (2 ^ k)) % 2

\* byte i of the 8-byte object holding v
ByteOf(v, i) == IF i > 3 THEN 0 ELSE (v \div (256 ^ i)) % 256

\* bit j of the container that memcpy loads from buffer + byteOffset with
\* size bytes into a zeroed uint64_t
containerBit(buf, field, j) ==
    IF j >= field.size * 8 THEN 0
    ELSE BitOf(buf[field.byteOffset + (j \div 8)], j % 8)

\* the byte indexes that std::memcpy(buffer + byteOffset, ..., size) touches
copiedRange(field) == field.byteOffset .. (field.byteOffset + field.size - 1)

\* the non-bit-field branch of struct_write
writePlain(buf, field, value) ==
    [i \in DOMAIN buf |->
        IF i \in copiedRange(field) THEN ByteOf(value, i - field.byteOffset) ELSE buf[i]]

\* the bit-field branch of struct_write: mask, clearMask, the OR, the copy back
writeBitField(buf, field, value) ==
    LET inField(j) == j >= field.bitOffset /\ j < field.bitOffset + field.bitWidth
        newBit(j) == IF inField(j) THEN BitOf(value, j - field.bitOffset)
                     ELSE containerBit(buf, field, j)
        newByte(b) == newBit(8 * b) + 2 * newBit(8 * b + 1) + 4 * newBit(8 * b + 2)
                      + 8 * newBit(8 * b + 3) + 16 * newBit(8 * b + 4)
                      + 32 * newBit(8 * b + 5) + 64 * newBit(8 * b + 6)
                      + 128 * newBit(8 * b + 7)
    IN [i \in DOMAIN buf |->
           IF i \in copiedRange(field) THEN newByte(i - field.byteOffset) ELSE buf[i]]

\* struct_write after its parseStruct call: found = FALSE is the throw
struct_write(structInfo, fieldName, value, buf) ==
    LET i == findField(structInfo, fieldName)
        field == structInfo.fields[i]
    IN IF i = 0 THEN [found |-> FALSE, buffer |-> buf, copied |-> {}]
       ELSE [found |-> TRUE,
             buffer |-> IF ~field.isBitField THEN writePlain(buf, field, value)
                        ELSE writeBitField(buf, field, value),
             copied |-> copiedRange(field)]

RECURSIVE sumBits(_, _, _, _)
sumBits(buf, field, k, acc) ==
    IF k < 0 THEN acc
    ELSE sumBits(buf, field, k - 1, 2 * acc + containerBit(buf, field, field.bitOffset + k))

\* the bit-field branch of struct_read: (containerValue >> bitOffset) & mask
readBitField(buf, field) == sumBits(buf, field, field.bitWidth - 1, 0)

\* the non-bit-field branch of struct_read: the size bytes copied into T value
readPlain(buf, field) == [k \in 0..(field.size - 1) |-> buf[field.byteOffset + k]]

\* struct_read after its parseStruct call: found = FALSE is the throw
struct_read(structInfo, fieldName, buf) ==
    LET i == findField(structInfo, fieldName)
        field == structInfo.fields[i]
    IN IF i = 0 THEN [found |-> FALSE, value |-> 0, copied |-> {}]
       ELSE [found |-> TRUE,
             value |-> IF ~field.isBitField THEN readPlain(buf, field)
                       ELSE readBitField(buf, field),
             copied |-> copiedRange(field)]

(***************************************************************************)
(* The struct texts the callers pass.  A declaration is written from a      *)
(* kind, a type, a width and a style; the style says what stands between    *)
(* the type and the next token and what follows the semicolon.              *)
(***************************************************************************)
FieldNames == <<"a", "b", "c", "d", "e", "f">>

blockComment == <<"/", "*", "c", "*", "/">>

\* between the type and the next token
gap(style, commented) ==
    CASE style = "tight" -> <<>>
      [] style = "blk"   -> IF commented THEN blockComment ELSE <<" ">>
      [] style = "blksp" -> IF commented THEN <<" ">> \o blockComment \o <<" ">>
                            ELSE <<" ", " ", " ">>
      [] style = "line"  -> IF commented THEN <<" ", "/", "/", "c", "\n">>
                            ELSE <<" ", " ", "\n">>
      [] OTHER           -> <<" ">>

\* after the semicolon
trailer(style, commented) ==
    CASE style = "cross" -> IF commented THEN <<"/", "*", "c", ";", "\n", "c", "*", "/">>
                            ELSE <<" ">>
      [] style = "line"  -> IF commented THEN <<" ", "/", "/", "c", ";", "c", "\n">>
                            ELSE <<" ", " ", "\n">>
      [] style = "blksp" -> <<"\n">>
      [] style = "blk"   -> <<>>
      [] OTHER           -> <<" ">>

renderDecl(d, name, commented) ==
    <<d.type>> \o gap(d.style, commented)
    \o (CASE d.kind = "plain" -> <<name>>
          [] d.kind = "named" -> <<name, ":", ToString(d.width)>>
          [] OTHER            -> <<":", ToString(d.width)>>)
    \o <<";">> \o trailer(d.style, commented)

\* struct S { <body> };
fullText(body) == <<"struct", " ", "S", " ", "{", "\n">> \o body \o <<"}", ";">>

Decl(kind, type, width, style) ==
    [kind |-> kind, type |-> type, width |-> width, style |-> style]

CommentStyles == {"sp", "blk", "blksp", "line", "cross"}

MixedDecls ==
    {Decl("plain", t, 0, s) : t \in {"uint8_t", "uint16_t", "uint32_t"}, s \in CommentStyles}
    \cup {Decl("named", "uint8_t", w, s) : w \in {3, 5, 6, 9}, s \in CommentStyles}
    \cup {Decl("named", "uint16_t", 10, s) : s \in CommentStyles}
    \cup {Decl("named", "uint32_t", w, s) : w \in {3, 20}, s \in CommentStyles}
    \cup {Decl("anon", "uint8_t", 3, s) : s \in CommentStyles \cup {"tight"}}

PlainDecls == {Decl("plain", InitEntries[k][1], 0, "sp") : k \in 1..Len(InitEntries)}

PackDecls == {Decl("named", "uint8_t", w, "sp") : w \in 1..8}

\* the values the callers write into a field
WriteValues(field) ==
    IF field.isBitField
    THEN {0, 1, 2 ^ field.bitWidth - 1, 2 ^ field.bitWidth}
    ELSE {0, 255, 43981}

NoAccess == [name |-> "", value |-> 0, found |-> FALSE, copied |-> {}]

(***************************************************************************)
(* The callers' steps.                                                     *)
(***************************************************************************)
ParserInit ==
    /\ structText = <<>>
    /\ bareText = <<>>
    /\ decls = <<>>
    /\ phase = "edit"
    /\ info = [error |-> "", fields |-> <<>>, totalSize |-> 0]
    /\ buffer = <<>>
    /\ lastWrite = NoAccess
    /\ lastRead = NoAccess
    /\ typeSizes = {}

RaceIdle ==
    /\ pc = <<"idle", "idle">>
    /\ arg = <<"", "">>
    /\ ins = <<0, 0>>
    /\ ret = <<"none", "none">>
    /\ calls = <<0, 0>>
    /\ initDone = FALSE

Init == ParserInit /\ RaceIdle

\* the caller writes one more declaration into the struct text
AddDecl(d, max) ==
    /\ phase = "edit"
    /\ Len(decls) < max
    /\ structText' = structText \o renderDecl(d, FieldNames[Len(decls) + 1], TRUE)
    /\ bareText' = bareText \o renderDecl(d, FieldNames[Len(decls) + 1], FALSE)
    /\ decls' = Append(decls, d)
    /\ UNCHANGED <<phase, info, buffer, lastWrite, lastRead, typeSizes>>
    /\ UNCHANGED raceVars

\* StructSizeOf(text): parseStruct runs, the registry is populated on the way
ParseStruct ==
    /\ phase = "edit"
    /\ info' = parseStruct(typeSizes, fullText(structText))
    /\ typeSizes' = typeSizesAfterParse(typeSizes, fullText(structText))
    /\ phase' = "parsed"
    /\ UNCHANGED <<structText, bareText, decls, buffer, lastWrite, lastRead>>
    /\ UNCHANGED raceVars

\* every byte index the codec can touch for this layout
memoryExtent(structInfo) ==
    LET ends == {structInfo.totalSize}
                \cup {structInfo.fields[i].byteOffset + structInfo.fields[i].size :
                        i \in 1..Len(structInfo.fields)}
    IN SetMax(ends)

\* the caller allocates struct_sizeof(text) bytes, all fill
Allocate(fill) ==
    /\ phase = "parsed"
    /\ info.error = ""
    /\ buffer' = [i \in 0..(memoryExtent(info) - 1) |-> fill]
    /\ phase' = "ready"
    /\ UNCHANGED <<structText, bareText, decls, info, lastWrite, lastRead, typeSizes>>
    /\ UNCHANGED raceVars

\* StructWrite(text, fieldName, value, buffer)
StructWrite(fieldName, value) ==
    /\ phase = "ready"
    /\ LET structInfo == parseStruct(typeSizes, fullText(structText))
           r == struct_write(structInfo, fieldName, value, buffer)
       IN /\ buffer' = r.buffer
          /\ lastWrite' = [name |-> fieldName, value |-> value, found |-> r.found,
                           copied |-> r.copied]
    /\ phase' = "written"
    /\ UNCHANGED <<structText, bareText, decls, info, lastRead, typeSizes>>
    /\ UNCHANGED raceVars

\* struct_read<T>(text, fieldName, buffer)
StructRead(fieldName) ==
    /\ phase = "written"
    /\ LET structInfo == parseStruct(typeSizes, fullText(structText))
           r == struct_read(structInfo, fieldName, buffer)
       IN lastRead' = [name |-> fieldName, value |-> r.value, found |-> r.found,
                       copied |-> r.copied]
    /\ phase' = "read"
    /\ UNCHANGED <<structText, bareText, decls, info, buffer, lastWrite, typeSizes>>
    /\ UNCHANGED raceVars

\* the names a caller asks for: the declared ones and the empty name
CallerNames == {FieldNames[i] : i \in 1..Len(decls)} \cup {""}

CallerValues(fieldName) ==
    LET i == findField(info, fieldName)
    IN IF i = 0 THEN {0} ELSE WriteValues(info.fields[i])

Next ==
    \/ \E d \in MixedDecls : AddDecl(d, MaxFields)
    \/ ParseStruct
    \/ \E fill \in {0, 255} : Allocate(fill)
    \/ \E fieldName \in CallerNames : \E value \in CallerValues(fieldName) :
           StructWrite(fieldName, value)
    \/ \E fieldName \in CallerNames : StructRead(fieldName)

Spec == Init /\ [][Next]_vars

PlainNext ==
    \/ \E d \in PlainDecls : AddDecl(d, MaxPlainFields)
    \/ ParseStruct

\* structs made of plain fields of registered types only
PlainSpec == Init /\ [][PlainNext]_vars

PackNext ==
    \/ \E d \in PackDecls : AddDecl(d, MaxPackFields)
    \/ ParseStruct

\* structs made of uint8_t bit-fields of widths 1..8 only
PackSpec == Init /\ [][PackNext]_vars

(***************************************************************************)
(* Two threads making getTypeSize calls with no synchronisation.  The       *)
(* steps of a call interleave statement by statement: the emptiness check   *)
(* of initializeTypeSizes, each of its twelve assignments, and the find of  *)
(* getTypeSize.                                                            *)
(***************************************************************************)
Threads == {1, 2}

LookupTypes == {"uint8_t", "double", "weirdtype"}

\* a thread enters getTypeSize(type)
Call(t, type) ==
    /\ pc[t] = "idle"
    /\ calls[t] < MaxCalls
    /\ pc' = [pc EXCEPT ![t] = "check"]
    /\ arg' = [arg EXCEPT ![t] = type]
    /\ calls' = [calls EXCEPT ![t] = @ + 1]
    /\ ins' = [ins EXCEPT ![t] = 0]
    /\ UNCHANGED <<ret, initDone, typeSizes>>
    /\ UNCHANGED parserVars

\* if (!typeSizes.empty()) return;
CheckEmpty(t) ==
    /\ pc[t] = "check"
    /\ pc' = [pc EXCEPT ![t] = IF skipInitialization(typeSizes) THEN "find" ELSE "insert"]
    /\ UNCHANGED <<arg, calls, ins, ret, initDone, typeSizes>>
    /\ UNCHANGED parserVars

\* the next of the twelve assignments; after the last one the call returns
Insert(t) ==
    /\ pc[t] = "insert"
    /\ typeSizes' = mapAssign(typeSizes, InitEntries[ins[t] + 1])
    /\ ins' = [ins EXCEPT ![t] = @ + 1]
    /\ pc' = [pc EXCEPT ![t] = IF ins[t] + 1 = Len(InitEntries) THEN "find" ELSE "insert"]
    /\ initDone' = (initDone \/ ins[t] + 1 = Len(InitEntries))
    /\ UNCHANGED <<arg, calls, ret>>
    /\ UNCHANGED parserVars

\* typeSizes.find(type), then return it->second or throw
Find(t) ==
    /\ pc[t] = "find"
    /\ ret' = [ret EXCEPT ![t] = IF mapHas(typeSizes, arg[t])
                                 THEN ToString(mapGet(typeSizes, arg[t]))
                                 ELSE "Unknown type"]
    /\ pc' = [pc EXCEPT ![t] = "idle"]
    /\ UNCHANGED <<arg, calls, ins, initDone, typeSizes>>
    /\ UNCHANGED parserVars

RaceNext ==
    \E t \in Threads :
        \/ \E type \in LookupTypes : Call(t, type)
        \/ CheckEmpty(t)
        \/ Insert(t)
        \/ Find(t)

RaceSpec == Init /\ [][RaceNext]_vars

(***************************************************************************)
(* What the specification says, independent of the code above.             *)
(***************************************************************************)
\* the primitive-type registry of the specification's data model
SpecTypeSize(type) ==
    CASE type \in {"uint8_t", "int8_t", "char"}    -> 1
      [] type \in {"uint16_t", "int16_t", "short"} -> 2
      [] type \in {"uint32_t", "int32_t", "float"} -> 4
      [] type \in {"uint64_t", "int64_t", "double"} -> 8
      [] OTHER -> 0

RegisteredTypes ==
    {"uint8_t", "int8_t", "char", "uint16_t", "int16_t", "short",
     "uint32_t", "int32_t", "float", "uint64_t", "int64_t", "double"}

RECURSIVE SumSizes(_, _)
\* the sum of the registry sizes of the first k declared types
SumSizes(ds, k) == IF k = 0 THEN 0 ELSE SumSizes(ds, k - 1) + SpecTypeSize(ds[k].type)

RECURSIVE FirstFit(_, _)
\* sequential first-fit packing of the first k declared widths into bytes:
\* where each field lies, the open byte and the bits used in it
FirstFit(ds, k) ==
    IF k = 0 THEN [at |-> <<>>, byte |-> 0, used |-> 0]
    ELSE LET p == FirstFit(ds, k - 1)
             w == ds[k].width
         IN IF p.used + w <= 8
            THEN [at |-> Append(p.at, <<p.byte, p.used>>), byte |-> p.byte,
                  used |-> p.used + w]
            ELSE [at |-> Append(p.at, <<p.byte + 1, 0>>), byte |-> p.byte + 1,
                  used |-> w]

BytesHoldingAField(ds) == Cardinality({FirstFit(ds, Len(ds)).at[i][1] : i \in 1..Len(ds)})

DeclaredWidths == [i \in 1..Len(decls) |-> decls[i].width]
DeclaredTypes == [i \in 1..Len(decls) |-> decls[i].type]
Parsed == phase # "edit"

(***************************************************************************)
(* The claims.                                                             *)
(***************************************************************************)

\* C1: every bit-field of every layout parseStruct returns lies inside its
\* storage unit: bitOffset + bitWidth <= size * 8, also when the declared
\* width exceeds the type's bit count.
C1_BitFieldInsideUnit ==
    Parsed =>
        \A i \in 1..Len(info.fields) :
            info.fields[i].isBitField =>
                info.fields[i].bitOffset + info.fields[i].bitWidth
                    <= info.fields[i].size * 8

\* C2: struct_write of x into a named bit-field of width w followed by
\* struct_read of the same field returns x mod 2^w, for x in 0..2^w
\* (x itself below 2^w, 0 at x = 2^w).
C2_BitFieldRoundTrip ==
    (/\ phase = "read" /\ lastWrite.found /\ lastRead.found
     /\ lastWrite.name # "" /\ lastRead.name = lastWrite.name
     /\ info.fields[findField(info, lastWrite.name)].isBitField)
    => lastRead.value
         = lastWrite.value % (2 ^ info.fields[findField(info, lastWrite.name)].bitWidth)

\* the classified lines with every anonymous bit-field given a name
NamedTwin(fds) ==
    [k \in 1..Len(fds) |->
        IF fds[k].isAnonymous
        THEN [fds[k] EXCEPT !.name = "anon_", !.isAnonymous = FALSE]
        ELSE fds[k]]

IsNotTwin(f) == f.name # "anon_"

\* C3: an anonymous bit-field, written TYPE:WIDTH or TYPE : WIDTH, moves the
\* cursors as a named one would (same totalSize, same later offsets) and is
\* never in the returned fields: every entry has a non-empty name and a
\* lookup of the empty name finds nothing.
C3_AnonymousNeverListed ==
    (Parsed /\ info.error = "") =>
        /\ \A i \in 1..Len(info.fields) : info.fields[i].name # ""
        /\ findField(info, "") = 0
        /\ FieldType(typeSizes, fullText(structText), "") = ""
        /\ LET twin == layoutOf(typeSizes, NamedTwin(classifiedFields(fullText(structText))))
           IN /\ twin.totalSize = info.totalSize
              /\ SelectSeq(twin.fields, IsNotTwin) = info.fields

\* C4: parseStruct returns the same layout for a text with comments as for
\* the text in which each comment is replaced by one space.
C4_CommentsLeaveLayout ==
    Parsed => info = parseStruct(typeSizes, fullText(bareText))

\* C5: for a struct of plain fields of registered types only, struct_sizeof is
\* the sum of the registry sizes of the declared types and each byteOffset is
\* the sum of the sizes of the fields declared before it.
C5_PlainFieldsSumOfSizes ==
    (Parsed /\ \A i \in 1..Len(decls) : decls[i].kind = "plain") =>
        /\ info.error = ""
        /\ Len(info.fields) = Len(decls)
        /\ info.totalSize = SumSizes(decls, Len(decls))
        /\ \A i \in 1..Len(info.fields) :
              /\ info.fields[i].name = FieldNames[i]
              /\ info.fields[i].type = decls[i].type
              /\ info.fields[i].size = SpecTypeSize(decls[i].type)
              /\ info.fields[i].byteOffset = SumSizes(decls, i - 1)

C5_Witness ==
    /\ Parsed
    /\ DeclaredTypes = <<"char", "uint16_t", "double">>
    /\ info.totalSize = 11
    /\ info.fields[2].byteOffset = 1
    /\ info.fields[3].byteOffset = 3

\* C6: a struct of uint8_t bit-fields of widths 1..8 is laid out by sequential
\* first-fit packing into bytes and struct_sizeof is the number of bytes that
\* hold a field; {a:3; b:5} is a at 0/0, b at 0/3, size 1, and {a:3; b:6} is
\* a at 0/0, b at 1/0, size 2.
C6_Uint8FirstFit ==
    (/\ Parsed
     /\ \A i \in 1..Len(decls) :
           decls[i].kind = "named" /\ decls[i].type = "uint8_t" /\ decls[i].width \in 1..8)
    => /\ info.error = ""
       /\ Len(info.fields) = Len(decls)
       /\ \A i \in 1..Len(info.fields) :
             /\ info.fields[i].name = FieldNames[i]
             /\ info.fields[i].bitWidth = decls[i].width
             /\ <<info.fields[i].byteOffset, info.fields[i].bitOffset>>
                  = FirstFit(decls, Len(decls)).at[i]
       /\ info.totalSize = BytesHoldingAField(decls)
       /\ DeclaredWidths = <<3, 5>> =>
             /\ <<info.fields[1].byteOffset, info.fields[1].bitOffset>> = <<0, 0>>
             /\ <<info.fields[2].byteOffset, info.fields[2].bitOffset>> = <<0, 3>>
             /\ info.totalSize = 1
       /\ DeclaredWidths = <<3, 6>> =>
             /\ <<info.fields[1].byteOffset, info.fields[1].bitOffset>> = <<0, 0>>
             /\ <<info.fields[2].byteOffset, info.fields[2].bitOffset>> = <<1, 0>>
             /\ info.totalSize = 2

C6_Witness ==
    /\ Parsed
    /\ DeclaredWidths = <<3, 6, 2, 8>>
    /\ info.fields[2].byteOffset = 1 /\ info.fields[2].bitOffset = 0
    /\ info.fields[3].byteOffset = 1 /\ info.fields[3].bitOffset = 6
    /\ info.fields[4].byteOffset = 2 /\ info.fields[4].bitOffset = 0
    /\ info.totalSize = 3

\* C7: when a bit-field does not fit the open unit, the byte cursor advances
\* by the storage size of the previous field and the field is placed there at
\* bit 0.
C7_CloseByPreviousSize ==
    (Parsed /\ info.error = "") =>
        LET fds == classifiedFields(fullText(structText))
        IN \A k \in 2..Len(fds) :
             LET before == layoutLoop(typeSizes, fds, k - 1)
                 size == getTypeSize(typeSizes, fds[k].type).size
                 prevSize == getTypeSize(typeSizes, fds[k - 1].type).size
                 placed == placeField(fds[k], size, before.currentByteOffset,
                                      before.currentBitOffset).field
             IN (/\ fds[k].isBitField /\ fds[k - 1].isBitField
                 /\ before.currentBitOffset > 0
                 /\ before.currentBitOffset + fds[k].bitWidth > size * 8)
                => /\ placed.byteOffset = before.currentByteOffset + prevSize
                   /\ placed.bitOffset = 0

\* C8: every field lies inside the struct, byteOffset + size <= totalSize, so
\* struct_write and struct_read on a buffer of struct_sizeof bytes touch no
\* byte index >= totalSize.
C8_FieldsInsideStruct ==
    (Parsed /\ info.error = "") =>
        /\ \A i \in 1..Len(info.fields) :
              info.fields[i].byteOffset + info.fields[i].size <= info.totalSize
        /\ lastWrite.copied \subseteq 0..(info.totalSize - 1)
        /\ lastRead.copied \subseteq 0..(info.totalSize - 1)

\* C9: struct_write of one field leaves what struct_read returns for every
\* field of another name unchanged.
C9_WriteLeavesOtherFields ==
    [][(phase = "ready" /\ phase' = "written" /\ lastWrite'.found) =>
          \A i \in 1..Len(info.fields) :
              info.fields[i].name # lastWrite'.name =>
                  struct_read(info, info.fields[i].name, buffer').value
                    = struct_read(info, info.fields[i].name, buffer).value]_vars

\* C10: once a populating initializeTypeSizes call has returned, no step
\* changes the registry and every lookup of a registered type returns its
\* size; before that, a thread can skip initialization and miss a registered
\* type (C10_Witness).
C10_PopulatedRegistryStable ==
    [][initDone =>
          /\ typeSizes' = typeSizes
          /\ \A t \in Threads :
                (pc[t] = "find" /\ pc'[t] = "idle" /\ arg[t] \in RegisteredTypes)
                => ret'[t] = ToString(SpecTypeSize(arg[t]))]_vars

C10_Witness ==
    \E t \in Threads : \E u \in Threads :
        /\ t # u
        /\ calls[t] = 1 /\ pc[t] = "idle" /\ ins[t] = 0
        /\ arg[t] = "double" /\ ret[t] = "Unknown type"
        /\ initDone
        /\ ins[u] = Len(InitEntries) /\ pc[u] = "idle"
        /\ arg[u] = "double" /\ ret[u] = "8"

====
